---- MODULE Spec2Model ----
(***************************************************************************)
(* Backend-for-Frontend OIDC server (express + express-session +           *)
(* openid-client): the four /auth endpoints, the session store they act on *)
(* and the process-wide discovery cache.                                   *)
(*                                                                         *)
(* One action per HTTP request.  A request carries a session cookie; the   *)
(* session middleware loads the stored session (or makes an empty one      *)
(* under a new identifier), the handler runs, and at the end of the        *)
(* response the session is written back when the handler changed it        *)
(* (resave: false, saveUninitialized: false).                              *)
(*                                                                         *)
(* sessionConfig reads sessionStore when the module is loaded, before      *)
(* startServer runs initializeRedis, so the session middleware always      *)
(* works on the in-process store: a destroy removes the session at once.   *)
(* The framework is Express 5 (README): req.body is undefined unless a     *)
(* JSON body was parsed, and an exception in an async handler is answered  *)
(* 500.                                                                    *)
(*                                                                         *)
(* Requests are handled one after the other.  last records the request     *)
(* just handled until ResponseDelivered clears it; the properties at the   *)
(* end read it.                                                            *)
(*                                                                         *)
(* Spec handles getOidcConfig as one step of the request that calls it.    *)
(* SpecDiscovery follows getOidcConfig alone, step by step, with the calls *)
(* of startServer and of several requests overlapping at the await of the  *)
(* discovery.  SpecStore follows module load and startServer step by step  *)
(* (store selection, startup discovery, listen) and then the sessions in   *)
(* the stores, a logout in two steps: its handler and the callback of      *)
(* destroy.  SpecFlow is Spec seen through one browser, with the callback  *)
(* handled last remembered.  SpecShared handles the requests of one        *)
(* browser at the same time: each works on the session object loaded for   *)
(* it and they overlap at their awaits.  SpecReconnect follows the Redis   *)
(* client and its reconnect strategy.                                      *)
(***************************************************************************)
EXTENDS Integers, Sequences, FiniteSets, Bags, TLC

(* Bounds of the model. *)
MaxSid == 2        \* session identifiers the store hands out
MaxRand == 2       \* random draws (flow artifacts, CSRF tokens)
MaxCallers == 3    \* requests that call getOidcConfig at the same time
MaxAttempts == 4   \* discovery requests sent to the provider
MaxStoreSessions == 3   \* sessions followed through the stores
MaxInflight == 2       \* requests handled at the same time
MaxOutages == 5        \* losses of the Redis connection that are followed
MaxRetryCount == 12    \* largest retry count the reconnect strategy is asked about

(* JavaScript values that mark a missing value. *)
Undefined == "<undefined>"
Null == "<null>"
Falsy(v) == v \in {Undefined, Null, ""}

VARIABLES
    listening,     \* app.listen has been called
    oidcConfig,    \* the module-level discovery cache
    sessions,      \* the session store: session identifier -> session data
    nextSid,       \* next unused session identifier
    rnd,           \* next unused random value
    pending,       \* history: per session, mode of the initiation not yet followed by a callback
    lastInit,      \* history: per session, mode of the most recent initiation
    meTrue,        \* history: sessions for which GET /auth/me has answered authenticated:true
    destroyed,     \* history: sessions destroyed by a logout answered 200
    last,          \* history: the request just handled, its inputs and its response,
                   \* until the response is delivered
    flows,         \* history: per session, the draws of the initiations not yet followed
                   \* by a callback, oldest first
    calls,         \* the getOidcConfig calls in progress, per caller
    attempts,      \* number of discovery requests sent to the provider
    succeeded,     \* history: the discovery requests the provider answered
    env,           \* process environment: REDIS_ENABLED, REDIS_URL
    startPc,       \* where module load and startServer stand
    redisClient,   \* the module-level Redis client
    sessionStore,  \* the module-level store selected by initializeRedis
    middlewareStore,  \* the store the session middleware was built with
    connected,     \* history: outcome of the initial Redis connection
    contents,      \* per store, the session identifiers it holds
    phase,         \* per session identifier, how far its life has come
    latest,        \* history: per session, the draw of its latest initiation
    replay,        \* history: the callback handled last, kept while it can be replayed
    inflight,      \* the requests being handled, each with the session it loaded
    ackQueue,      \* the saves of the store whose callback has not run yet
    writer,        \* history: per session, the request that wrote it last
    lastAck,       \* history: per session, the initiation whose save was acknowledged last
    link           \* the connection of the Redis client and its reconnect strategy

vars == <<listening, oidcConfig, sessions, nextSid, rnd, pending, lastInit, meTrue, destroyed, last,
         flows, calls, attempts, succeeded,
         env, startPc, redisClient, sessionStore, middlewareStore, connected, contents, phase,
         latest, replay, inflight, ackQueue, writer, lastAck, link>>

\* The variables only the discovery specification changes, and those it
\* leaves alone.
discoveryVars == <<calls, attempts, succeeded>>
requestVars ==
    <<sessions, nextSid, rnd, pending, lastInit, meTrue, destroyed, last, flows, latest, replay>>
\* The variables only the store specification changes.
storeVars ==
    <<env, startPc, redisClient, sessionStore, middlewareStore, connected, contents, phase>>
\* The variables only the specification of concurrent requests changes.
sharedVars == <<inflight, ackQueue, writer, lastAck>>

----------------------------------------------------------------------------
(* Values *)

NoConfig == "<null>"
Metadata == "metadata"

\* Random values are fresh: the k-th draw differs from every other draw.
Verifier(k) == "cv" \o ToString(k)
StateOf(k) == "st" \o ToString(k)
NonceOf(k) == "nc" \o ToString(k)
CsrfOf(k) == "csrf" \o ToString(k)
S256(v) == "S256(" \o v \o ")"

\* A session with no data. isSso and authenticated are either true or absent
\* in the program: TRUE stands for true, FALSE for absent. user and tokens
\* are <<>> when absent and <<record>> when set.
EmptySession ==
    [codeVerifier |-> Undefined, state |-> Undefined, nonce |-> Undefined,
     isSso |-> FALSE, user |-> <<>>, tokens |-> <<>>, authenticated |-> FALSE,
     csrfToken |-> Undefined]

----------------------------------------------------------------------------
(* Session middleware *)

Cookies == 0 .. (nextSid - 1)        \* 0: the request carries no cookie

HasSession(c) == c \in DOMAIN sessions
ReqSid(c) == IF HasSession(c) THEN c ELSE nextSid
ReqSession(c) == IF HasSession(c) THEN sessions[c] ELSE EmptySession

\* The store after a request that leaves the session as new: written only
\* when the data differ from what was loaded.
StoreAfter(c, new) ==
    IF new = ReqSession(c) THEN sessions
    ELSE [s \in DOMAIN sessions \cup {ReqSid(c)} |->
            IF s = ReqSid(c) THEN new ELSE sessions[s]]

SidAfter(c, new) ==
    IF HasSession(c) \/ new = ReqSession(c) THEN nextSid ELSE nextSid + 1

CanStore(c, new) == HasSession(c) \/ new = ReqSession(c) \/ nextSid <= MaxSid

\* A history map with one entry replaced.
Put(f, k, v) == [x \in DOMAIN f \cup {k} |-> IF x = k THEN v ELSE f[x]]
Get(f, k) == IF k \in DOMAIN f THEN f[k] ELSE "none"
\* The draw of the session's latest initiation answered with a redirect; 0
\* when it has had none.
Latest(sid) == IF sid \in DOMAIN latest THEN latest[sid] ELSE 0
\* No callback is remembered. on says whether callbacks are remembered at all.
NoReplay == [on |-> FALSE, sid |-> 0, q |-> <<>>, flows |-> <<>>]
\* The draws of the initiations the session has had since its last callback.
Flows(sid) == IF sid \in DOMAIN flows THEN flows[sid] ELSE <<>>

----------------------------------------------------------------------------
(* getOidcConfig *)

DiscoveryOutcomes == {"ok", "fail"}

\* d is the outcome of openidClient.discovery, consulted only on a cache miss.
GetOidcConfig(cache, d) ==
    IF cache # NoConfig THEN [ok |-> TRUE, cache |-> cache]
    ELSE IF d = "ok" THEN [ok |-> TRUE, cache |-> Metadata]
    ELSE [ok |-> FALSE, cache |-> NoConfig]

\* The outcomes worth drawing: just one when the cache is filled.
Discoveries == IF oidcConfig # NoConfig THEN {"ok"} ELSE DiscoveryOutcomes

----------------------------------------------------------------------------
(* startServer *)

\* The variables of the store specification where no other specification
\* looks at them.
StoreUnused ==
    /\ env = [enabled |-> FALSE, url |-> Undefined]
    /\ startPc = "load"
    /\ redisClient = Null
    /\ sessionStore = Null
    /\ middlewareStore = Null
    /\ connected = "untried"
    /\ contents = <<>>
    /\ phase = <<>>

\* No request is being handled step by step.
SharedUnused ==
    /\ inflight = EmptyBag
    /\ ackQueue = <<>>
    /\ writer = <<>>
    /\ lastAck = <<>>

\* No Redis client exists.
NoLink ==
    [status |-> "none", initialConnectionSucceeded |-> FALSE, retries |-> 0,
     attempts |-> 0, answer |-> <<>>, outages |-> 0]
LinkUnused == link = NoLink

NoRequest == [op |-> "none"]
Idle == last.op = "none"

Init ==
    /\ listening = FALSE
    /\ oidcConfig = NoConfig
    /\ sessions = <<>>
    /\ nextSid = 1
    /\ rnd = 1
    /\ pending = <<>>
    /\ lastInit = <<>>
    /\ meTrue = {}
    /\ destroyed = {}
    /\ last = NoRequest
    /\ flows = <<>>
    /\ latest = <<>>
    /\ replay = NoReplay
    /\ calls = <<>>
    /\ attempts = 0
    /\ succeeded = {}
    /\ StoreUnused
    /\ SharedUnused
    /\ LinkUnused

StartServer ==
    /\ ~listening
    /\ \E d \in DiscoveryOutcomes :
         oidcConfig' = GetOidcConfig(oidcConfig, d).cache
    /\ listening' = TRUE
    /\ UNCHANGED <<sessions, nextSid, rnd, pending, lastInit, meTrue, destroyed, last, flows,
                   latest, replay, discoveryVars, storeVars, sharedVars, link>>

----------------------------------------------------------------------------
(* GET /auth/sso and GET /auth/login *)

SsoWrites(sess, k) ==
    [sess EXCEPT !.codeVerifier = Verifier(k), !.state = StateOf(k),
                 !.nonce = NonceOf(k), !.isSso = TRUE]

\* Variant: a later initiation keeps the state of a flow already in flight.
LoginWritesKeepsFirst(sess, k) ==
    [sess EXCEPT !.codeVerifier = Verifier(k),
                 !.state = IF Falsy(sess.state) THEN StateOf(k) ELSE sess.state,
                 !.nonce = NonceOf(k)]

LoginWrites(sess, k) ==
    [sess EXCEPT !.codeVerifier = Verifier(k), !.state = StateOf(k),
                 !.nonce = NonceOf(k)]

\* Variant: the challenge is the verifier itself.
AuthorizationParamsPlain(k, silent) ==
    [redirect_uri |-> "BASE_URL/auth/callback",
     scope |-> "openid profile email User.Read",
     code_challenge |-> Verifier(k),
     code_challenge_method |-> "plain",
     state |-> StateOf(k),
     nonce |-> NonceOf(k),
     prompt |-> IF silent THEN "none" ELSE Undefined]

AuthorizationParams(k, silent) ==
    [redirect_uri |-> "BASE_URL/auth/callback",
     scope |-> "openid profile email User.Read",
     code_challenge |-> S256(Verifier(k)),
     code_challenge_method |-> "S256",
     state |-> StateOf(k),
     nonce |-> NonceOf(k),
     prompt |-> IF silent THEN "none" ELSE Undefined]

\* Variant: the flow fields are written before the provider metadata is asked for.
InitiateHandlerWritesFirst(mode, sess, cfgOk, k, saveOk) ==
    LET written == IF mode = "sso" THEN SsoWrites(sess, k) ELSE LoginWrites(sess, k)
        failText == IF mode = "sso" THEN "Failed to initiate SSO"
                    ELSE "Failed to initiate login"
    IN  IF ~cfgOk \/ ~saveOk THEN
            [session |-> IF saveOk THEN written ELSE sess, drew |-> TRUE,
             resp |-> [status |-> 500, location |-> Undefined, body |-> [error |-> failText]]]
        ELSE
            [session |-> written, drew |-> TRUE,
             resp |-> [status |-> 302, location |-> "authorize",
                       body |-> AuthorizationParams(k, mode = "sso")]]

\* Variant: the redirect is sent without waiting for the outcome of the save.
InitiateHandlerIgnoresSave(mode, sess, cfgOk, k, saveOk) ==
    LET written == IF mode = "sso" THEN SsoWrites(sess, k) ELSE LoginWrites(sess, k)
        failText == IF mode = "sso" THEN "Failed to initiate SSO"
                    ELSE "Failed to initiate login"
    IN  IF ~cfgOk THEN
            [session |-> sess, drew |-> FALSE,
             resp |-> [status |-> 500, location |-> Undefined, body |-> [error |-> failText]]]
        ELSE
            [session |-> IF saveOk THEN written ELSE sess, drew |-> TRUE,
             resp |-> [status |-> 302, location |-> "authorize",
                       body |-> AuthorizationParams(k, mode = "sso")]]

\* The handler: sess is the loaded session, cfgOk the outcome of
\* getOidcConfig, k the random draw, saveOk whether req.session.save
\* reported no error. session is what the store holds afterwards.
InitiateHandler(mode, sess, cfgOk, k, saveOk) ==
    LET written == IF mode = "sso" THEN SsoWrites(sess, k) ELSE LoginWrites(sess, k)
        failText == IF mode = "sso" THEN "Failed to initiate SSO"
                    ELSE "Failed to initiate login"
    IN  IF ~cfgOk THEN
            [session |-> sess, drew |-> FALSE,
             resp |-> [status |-> 500, location |-> Undefined, body |-> [error |-> failText]]]
        ELSE IF ~saveOk THEN
            [session |-> sess, drew |-> TRUE,
             resp |-> [status |-> 500, location |-> Undefined, body |-> [error |-> failText]]]
        ELSE
            [session |-> written, drew |-> TRUE,
             resp |-> [status |-> 302, location |-> "authorize",
                       body |-> AuthorizationParams(k, mode = "sso")]]

Initiate(mode) ==
    /\ listening /\ Idle
    /\ \E c \in Cookies, d \in Discoveries, saveOk \in BOOLEAN :
         \E cfg \in {GetOidcConfig(oidcConfig, d)}, sess \in {ReqSession(c)}, sid \in {ReqSid(c)} :
         \E r \in {InitiateHandler(mode, sess, cfg.ok, rnd, saveOk)} :
             /\ r.drew => rnd <= MaxRand
             /\ CanStore(c, r.session)
             /\ oidcConfig' = cfg.cache
             /\ sessions' = StoreAfter(c, r.session)
             /\ nextSid' = SidAfter(c, r.session)
             /\ rnd' = IF r.drew THEN rnd + 1 ELSE rnd
             /\ pending' = IF r.resp.status = 302 THEN Put(pending, sid, mode) ELSE pending
             /\ lastInit' = IF r.resp.status = 302 THEN Put(lastInit, sid, mode) ELSE lastInit
             /\ flows' = IF r.resp.status = 302
                          THEN Put(flows, sid, Append(Flows(sid), rnd)) ELSE flows
             /\ latest' = IF r.resp.status = 302 THEN Put(latest, sid, rnd) ELSE latest
             /\ replay' = IF replay.sid = sid THEN [NoReplay EXCEPT !.on = replay.on]
                           ELSE replay
             /\ last' = [op |-> mode, sid |-> sid, cookie |-> c, pre |-> sess, cfgOk |-> cfg.ok,
                         saveOk |-> saveOk, resp |-> r.resp]
    /\ UNCHANGED <<listening, meTrue, destroyed, discoveryVars, storeVars, sharedVars, link>>

AuthSso == Initiate("sso")
AuthLogin == Initiate("login")

----------------------------------------------------------------------------
(* GET /auth/callback *)

ClearTransient(sess) ==
    [sess EXCEPT !.codeVerifier = Undefined, !.state = Undefined,
                 !.nonce = Undefined, !.isSso = FALSE]

Redirect(to) == [status |-> 302, location |-> to, body |-> [text |-> Undefined]]

\* The query string of the callback URL.
ErrorParams == {Null, "", "interaction_required"}
StateParams == {Null, "", "forged"} \cup {StateOf(k) : k \in 1 .. (rnd - 1)}
CodeParams == {Null, "code"}
Queries ==
    {[error |-> e, error_description |-> IF Falsy(e) THEN Null ELSE "description",
      state |-> s, code |-> c] : e \in ErrorParams, s \in StateParams, c \in CodeParams}

\* What authorizationCodeGrant can do: return tokens whose ID token passed
\* validation, or throw (validation failure, provider unreachable). It
\* throws when the URL carries no code.
ClaimsSets ==
    {[name |-> "A B", email |-> "a@b.com", preferred_username |-> "ab@tenant", sub |-> "abc", oid |-> "oid1"],
     [name |-> "A B", email |-> Undefined, preferred_username |-> "ab@tenant", sub |-> "abc", oid |-> "oid1"]}
TokenSets ==
    {[access_token |-> "at", refresh_token |-> "rt", id_token |-> "idt", expires_at |-> "exp"]}
ExchangeFailed(why) == [ok |-> FALSE, why |-> why]
NoExchange == ExchangeFailed("not called")
ExchangeOutcomes(q) ==
    {ExchangeFailed("invalid"), ExchangeFailed("unavailable")}
    \cup (IF q.code = Null THEN {}
          ELSE {[ok |-> TRUE, claims |-> cl, tokens |-> t] : cl \in ClaimsSets, t \in TokenSets})

\* Variant: the comparison is made only when a state is stored.
StateMismatchFailOpen(sess, q) == ~Falsy(sess.state) /\ q.state # sess.state

StateMismatch(sess, q) == Falsy(sess.state) \/ q.state # sess.state

\* Variant: the error branch starts the session over.
CallbackErrorDropsIdentity(sess, q, isSso) ==
    [session |-> [EmptySession EXCEPT !.csrfToken = sess.csrfToken], exchanged |-> FALSE,
     resp |-> IF isSso THEN Redirect("/?sso_failed=true")
              ELSE [status |-> 400, location |-> Undefined,
                    body |-> [error |-> "Authentication failed", errorCode |-> q.error,
                              errorDescription |-> q.error_description]]]

CallbackError(sess, q, isSso) ==
    [session |-> ClearTransient(sess), exchanged |-> FALSE,
     resp |-> IF isSso THEN Redirect("/?sso_failed=true")
              ELSE [status |-> 400, location |-> Undefined,
                    body |-> [error |-> "Authentication failed", errorCode |-> q.error,
                              errorDescription |-> q.error_description]]]

\* Variant: a state mismatch is answered without touching the session.
CallbackStateMismatchKeeps(sess) ==
    [session |-> sess, exchanged |-> FALSE,
     resp |-> [status |-> 400, location |-> Undefined,
               body |-> [text |-> "State mismatch - possible CSRF attack"]]]

CallbackStateMismatch(sess) ==
    [session |-> ClearTransient(sess), exchanged |-> FALSE,
     resp |-> [status |-> 400, location |-> Undefined,
               body |-> [text |-> "State mismatch - possible CSRF attack"]]]

\* Variant: the email claim is taken as it is.
UserFromClaimsNoFallback(claims) ==
    [name |-> claims.name,
     email |-> claims.email,
     sub |-> claims.sub,
     oid |-> claims.oid]

UserFromClaims(claims) ==
    [name |-> claims.name,
     email |-> IF Falsy(claims.email) THEN claims.preferred_username ELSE claims.email,
     sub |-> claims.sub,
     oid |-> claims.oid]

SessionTokens(tokens) ==
    [accessToken |-> tokens.access_token, refreshToken |-> tokens.refresh_token,
     idToken |-> tokens.id_token, expiresAt |-> tokens.expires_at]

\* Variant: the success path marks the session authenticated without tokens.
CallbackSuccessNoTokens(sess, x) ==
    [session |-> ClearTransient([sess EXCEPT !.user = <<UserFromClaims(x.claims)>>,
                                             !.authenticated = TRUE]),
     exchanged |-> TRUE,
     resp |-> Redirect("/")]

\* Variant: the success path forgets to delete the flow data.
CallbackSuccessKeepsTransient(sess, x) ==
    [session |-> [sess EXCEPT !.user = <<UserFromClaims(x.claims)>>,
                              !.tokens = <<SessionTokens(x.tokens)>>,
                              !.authenticated = TRUE],
     exchanged |-> TRUE,
     resp |-> Redirect("/")]

CallbackSuccess(sess, x) ==
    [session |-> ClearTransient([sess EXCEPT !.user = <<UserFromClaims(x.claims)>>,
                                             !.tokens = <<SessionTokens(x.tokens)>>,
                                             !.authenticated = TRUE]),
     exchanged |-> TRUE,
     resp |-> Redirect("/")]

\* Variant: the catch block does not look at the silent flag.
CallbackCatchNoSilent(sess, exchanged) ==
    [session |-> sess, exchanged |-> exchanged,
     resp |-> [status |-> 500, location |-> Undefined,
               body |-> [text |-> "Authentication failed. Please try again."]]]

\* The catch block: reached from a failed getOidcConfig or a failed exchange,
\* both before the session is changed.
CallbackCatch(sess, exchanged) ==
    IF sess.isSso
    THEN [session |-> ClearTransient(sess), exchanged |-> exchanged,
          resp |-> Redirect("/?sso_failed=true")]
    ELSE [session |-> sess, exchanged |-> exchanged,
          resp |-> [status |-> 500, location |-> Undefined,
                    body |-> [text |-> "Authentication failed. Please try again."]]]

\* Variant: the state is left to the exchange to validate.
CallbackHandlerNoStateCheck(sess, q, cfgOk, x) ==
    IF ~cfgOk THEN CallbackCatch(sess, FALSE)
    ELSE IF ~Falsy(q.error) THEN CallbackError(sess, q, sess.isSso = TRUE)
    ELSE IF x.ok THEN CallbackSuccess(sess, x)
    ELSE CallbackCatch(sess, TRUE)

\* Variant: the error parameter is looked at only when the state does not match.
CallbackHandlerErrorLast(sess, q, cfgOk, x) ==
    IF ~cfgOk THEN CallbackCatch(sess, FALSE)
    ELSE IF ~Falsy(q.error) /\ StateMismatch(sess, q) THEN
        CallbackError(sess, q, sess.isSso = TRUE)
    ELSE IF StateMismatch(sess, q) THEN CallbackStateMismatch(sess)
    ELSE IF x.ok THEN CallbackSuccess(sess, x)
    ELSE CallbackCatch(sess, TRUE)

\* The checks the handler hands to authorizationCodeGrant with the callback URL.
GrantChecks(sess) ==
    [pkceCodeVerifier |-> sess.codeVerifier, expectedNonce |-> sess.nonce,
     expectedState |-> sess.state]

\* x is the outcome of authorizationCodeGrant, consulted only when it is called.
CallbackHandler(sess, q, cfgOk, x) ==
    IF ~cfgOk THEN CallbackCatch(sess, FALSE)
    ELSE IF ~Falsy(q.error) THEN CallbackError(sess, q, sess.isSso = TRUE)
    ELSE IF StateMismatch(sess, q) THEN CallbackStateMismatch(sess)
    ELSE IF x.ok THEN CallbackSuccess(sess, x)
    ELSE CallbackCatch(sess, TRUE)

AuthCallback ==
    /\ listening /\ Idle
    /\ \E c \in Cookies, q \in Queries, d \in Discoveries :
         \E cfg \in {GetOidcConfig(oidcConfig, d)}, sess \in {ReqSession(c)}, sid \in {ReqSid(c)} :
         \E called \in {CallbackHandler(sess, q, cfg.ok, NoExchange).exchanged} :
         \E x \in IF called THEN ExchangeOutcomes(q) ELSE {NoExchange} :
         \E r \in {CallbackHandler(sess, q, cfg.ok, x)} :
                   /\ CanStore(c, r.session)
                   /\ oidcConfig' = cfg.cache
                   /\ sessions' = StoreAfter(c, r.session)
                   /\ nextSid' = SidAfter(c, r.session)
                   /\ pending' = IF sid \in DOMAIN pending THEN Put(pending, sid, "none")
                                 ELSE pending
                   /\ flows' = IF sid \in DOMAIN flows THEN Put(flows, sid, <<>>) ELSE flows
                   /\ last' = [op |-> "callback", sid |-> sid, cookie |-> c, pre |-> sess, q |-> q,
                               cfgOk |-> cfg.ok, exchange |-> x, exchanged |-> r.exchanged,
                               pending |-> Get(pending, sid), flows |-> Flows(sid),
                               grant |-> GrantChecks(sess), latest |-> Latest(sid),
                               replay |-> replay, resp |-> r.resp]
                   /\ replay' = IF replay.on
                                 THEN [on |-> TRUE, sid |-> sid, q |-> <<q>>,
                                       flows |-> Flows(sid)]
                                 ELSE replay
    /\ UNCHANGED <<listening, rnd, lastInit, meTrue, destroyed, latest, discoveryVars, storeVars, sharedVars, link>>

----------------------------------------------------------------------------
(* GET /auth/me *)

\* Variant: every status check generates a new CSRF token.
MeHandlerRegenerates(sess, k) ==
    IF sess.authenticated /\ sess.user # <<>> THEN
        [session |-> [sess EXCEPT !.csrfToken = CsrfOf(k)],
         drew |-> Falsy(sess.csrfToken),
         resp |-> [status |-> 200, location |-> Undefined,
                   body |-> [authenticated |-> TRUE, user |-> sess.user[1],
                             csrfToken |-> CsrfOf(k)]]]
    ELSE
        [session |-> sess, drew |-> FALSE,
         resp |-> [status |-> 200, location |-> Undefined,
                   body |-> [authenticated |-> FALSE]]]

\* Variant: the status check answers with the session's tokens as well.
MeHandlerWithTokens(sess, k) ==
    IF sess.authenticated /\ sess.user # <<>> THEN
        LET token == IF Falsy(sess.csrfToken) THEN CsrfOf(k) ELSE sess.csrfToken
        IN  [session |-> [sess EXCEPT !.csrfToken = token],
             drew |-> Falsy(sess.csrfToken),
             resp |-> [status |-> 200, location |-> Undefined,
                       body |-> [authenticated |-> TRUE, user |-> sess.user[1],
                                 csrfToken |-> token, tokens |-> sess.tokens[1]]]]
    ELSE
        [session |-> sess, drew |-> FALSE,
         resp |-> [status |-> 200, location |-> Undefined,
                   body |-> [authenticated |-> FALSE]]]

\* Variant: the status check generates a CSRF token for every session.
MeHandlerAlwaysToken(sess, k) ==
    LET token == IF Falsy(sess.csrfToken) THEN CsrfOf(k) ELSE sess.csrfToken
    IN  IF sess.authenticated /\ sess.user # <<>> THEN
            [session |-> [sess EXCEPT !.csrfToken = token],
             drew |-> Falsy(sess.csrfToken),
             resp |-> [status |-> 200, location |-> Undefined,
                       body |-> [authenticated |-> TRUE, user |-> sess.user[1],
                                 csrfToken |-> token]]]
        ELSE
            [session |-> [sess EXCEPT !.csrfToken = token],
             drew |-> Falsy(sess.csrfToken),
             resp |-> [status |-> 200, location |-> Undefined,
                       body |-> [authenticated |-> FALSE]]]

\* k is the random value drawn when a CSRF token has to be generated.
MeHandler(sess, k) ==
    IF sess.authenticated /\ sess.user # <<>> THEN
        LET token == IF Falsy(sess.csrfToken) THEN CsrfOf(k) ELSE sess.csrfToken
        IN  [session |-> [sess EXCEPT !.csrfToken = token],
             drew |-> Falsy(sess.csrfToken),
             resp |-> [status |-> 200, location |-> Undefined,
                       body |-> [authenticated |-> TRUE, user |-> sess.user[1],
                                 csrfToken |-> token]]]
    ELSE
        [session |-> sess, drew |-> FALSE,
         resp |-> [status |-> 200, location |-> Undefined,
                   body |-> [authenticated |-> FALSE]]]

AuthMe ==
    /\ listening /\ Idle
    /\ \E c \in Cookies :
         \E sess \in {ReqSession(c)}, sid \in {ReqSid(c)} :
         \E r \in {MeHandler(sess, rnd)} :
             /\ r.drew => rnd <= MaxRand
             /\ CanStore(c, r.session)
             /\ sessions' = StoreAfter(c, r.session)
             /\ nextSid' = SidAfter(c, r.session)
             /\ rnd' = IF r.drew THEN rnd + 1 ELSE rnd
             /\ meTrue' = IF r.resp.body.authenticated THEN meTrue \cup {sid} ELSE meTrue
             /\ last' = [op |-> "me", sid |-> sid, cookie |-> c, pre |-> sess, resp |-> r.resp]
    /\ UNCHANGED <<listening, oidcConfig, pending, lastInit, destroyed, flows, latest, replay,
                   discoveryVars, storeVars, sharedVars, link>>

----------------------------------------------------------------------------
(* POST /auth/logout *)

\* req.body is <<>> when no body was parsed (it is undefined then) and
\* <<[csrfToken |-> v]>> for a parsed JSON object.
PresentedTokens == {"forged"} \cup {CsrfOf(k) : k \in 1 .. (rnd - 1)}
Bodies == {<<>>} \cup {<<[csrfToken |-> v]>> : v \in {Undefined, ""} \cup PresentedTokens}
Headers == {Undefined} \cup PresentedTokens

\* req.body.csrfToken || req.headers['x-csrf-token']
PresentedCsrf(body, header) ==
    IF Falsy(body[1].csrfToken) THEN header ELSE body[1].csrfToken

CsrfRejected(sess, presented) == Falsy(sess.csrfToken) \/ presented # sess.csrfToken

\* Variant: the logout URL never carries the ID token.
LogoutUrlNoHint(sess) ==
    [base |-> "https://login.microsoftonline.com/TENANT/oauth2/v2.0/logout",
     post_logout_redirect_uri |-> "BASE_URL",
     id_token_hint |-> Undefined]

LogoutUrl(sess) ==
    [base |-> "https://login.microsoftonline.com/TENANT/oauth2/v2.0/logout",
     post_logout_redirect_uri |-> "BASE_URL",
     id_token_hint |-> IF sess.tokens # <<>> /\ ~Falsy(sess.tokens[1].idToken)
                       THEN sess.tokens[1].idToken ELSE Undefined]

\* Variant: a rejected logout destroys the session all the same.
LogoutHandlerRejectDestroys(sess, body, header) ==
    IF body = <<>> THEN
        [destroy |-> FALSE,
         resp |-> [status |-> 500, location |-> Undefined, body |-> [text |-> "TypeError"]]]
    ELSE IF CsrfRejected(sess, PresentedCsrf(body, header)) THEN
        [destroy |-> TRUE,
         resp |-> [status |-> 403, location |-> Undefined,
                   body |-> [error |-> "Invalid CSRF token"]]]
    ELSE
        [destroy |-> TRUE,
         resp |-> [status |-> 200, location |-> Undefined,
                   body |-> [logoutUrl |-> LogoutUrl(sess)]]]

LogoutHandler(sess, body, header) ==
    IF body = <<>> THEN
        \* reading a property of undefined throws; the framework answers 500
        [destroy |-> FALSE,
         resp |-> [status |-> 500, location |-> Undefined, body |-> [text |-> "TypeError"]]]
    ELSE IF CsrfRejected(sess, PresentedCsrf(body, header)) THEN
        [destroy |-> FALSE,
         resp |-> [status |-> 403, location |-> Undefined,
                   body |-> [error |-> "Invalid CSRF token"]]]
    ELSE
        [destroy |-> TRUE,
         resp |-> [status |-> 200, location |-> Undefined,
                   body |-> [logoutUrl |-> LogoutUrl(sess)]]]

AuthLogout ==
    /\ listening /\ Idle
    /\ \E c \in Cookies, body \in Bodies, header \in Headers :
         \E sess \in {ReqSession(c)}, sid \in {ReqSid(c)} :
         \E r \in {LogoutHandler(sess, body, header)} :
             /\ sessions' = IF r.destroy
                            THEN [s \in DOMAIN sessions \ {sid} |-> sessions[s]]
                            ELSE sessions
             /\ destroyed' = IF r.destroy THEN destroyed \cup {sid} ELSE destroyed
             /\ last' = [op |-> "logout", sid |-> sid, cookie |-> c, pre |-> sess, body |-> body,
                         header |-> header,
                         meTrue |-> sid \in meTrue, resp |-> r.resp]
    /\ UNCHANGED <<listening, oidcConfig, nextSid, rnd, pending, lastInit, meTrue, flows, latest, replay,
                   discoveryVars, storeVars, sharedVars, link>>

----------------------------------------------------------------------------
(* Session expiry: the store drops a session whose cookie maxAge has run out *)

Expire ==
    /\ Idle
    /\ \E s \in DOMAIN sessions :
         sessions' = [t \in DOMAIN sessions \ {s} |-> sessions[t]]
    /\ UNCHANGED <<listening, oidcConfig, nextSid, rnd, pending, lastInit, meTrue, destroyed, last, flows,
                   latest, replay, discoveryVars, storeVars, sharedVars, link>>

----------------------------------------------------------------------------
(* Requests are handled one after the other: the response of one request is
   delivered before the next request is taken up. *)

ResponseDelivered ==
    /\ ~Idle
    /\ last' = NoRequest
    /\ UNCHANGED <<listening, oidcConfig, sessions, nextSid, rnd, pending, lastInit, meTrue, destroyed, flows,
                   latest, replay, discoveryVars, storeVars, sharedVars, link>>

----------------------------------------------------------------------------

Next ==
    \/ StartServer
    \/ AuthSso
    \/ AuthLogin
    \/ AuthCallback
    \/ AuthMe
    \/ AuthLogout
    \/ Expire
    \/ ResponseDelivered

Spec == Init /\ [][Next]_vars

\* The same server watched through one browser: of the session identifiers
\* the store can give out, all but the last were used up by sessions that have
\* expired, and the callback handled last is remembered for as long as no
\* initiation has been made on its session.
InitFlow ==
    /\ listening = FALSE
    /\ oidcConfig = NoConfig
    /\ sessions = <<>>
    /\ nextSid = MaxSid
    /\ rnd = 1
    /\ pending = <<>>
    /\ lastInit = <<>>
    /\ meTrue = {}
    /\ destroyed = {}
    /\ last = NoRequest
    /\ flows = <<>>
    /\ latest = <<>>
    /\ replay = [NoReplay EXCEPT !.on = TRUE]
    /\ calls = <<>>
    /\ attempts = 0
    /\ succeeded = {}
    /\ StoreUnused
    /\ SharedUnused
    /\ LinkUnused

SpecFlow == InitFlow /\ [][Next]_vars

----------------------------------------------------------------------------
(* getOidcConfig step by step.  A call runs alone up to its await of
   openidClient.discovery and again from the moment the discovery settles,
   so the calls of several requests overlap exactly at that await.
   startServer makes the first call and listens once it has settled;
   requests arrive only then. *)

Startup == 0                                  \* the call made by startServer
Callers == 0 .. MaxCallers                    \* 1 .. MaxCallers: request handlers
Discovered(n) == Metadata \o ToString(n)      \* what the n-th discovery request returns
NoResult == "<pending>"
Rejected == "<error>"

\* A call: where it stands, the cache it saw on entry (seen), whether a
\* discovery had succeeded before it started (after), whether it sent a
\* discovery request (contacted) and which (attempt), what it gave its caller
\* (result), and the cache just before and just after it settled (found, left).
NoCall ==
    [pc |-> "idle", seen |-> NoConfig, after |-> FALSE, contacted |-> FALSE,
     attempt |-> 0, result |-> NoResult, found |-> NoConfig, left |-> NoConfig]

InitDiscovery ==
    /\ listening = FALSE
    /\ oidcConfig = NoConfig
    /\ sessions = <<>>
    /\ nextSid = 1
    /\ rnd = 1
    /\ pending = <<>>
    /\ lastInit = <<>>
    /\ meTrue = {}
    /\ destroyed = {}
    /\ last = NoRequest
    /\ flows = <<>>
    /\ latest = <<>>
    /\ replay = NoReplay
    /\ calls = [p \in Callers |-> NoCall]
    /\ attempts = 0
    /\ succeeded = {}
    /\ StoreUnused
    /\ SharedUnused
    /\ LinkUnused

\* Variant: the provider is asked even when the cache is filled.
EnterAlwaysContacts(p) ==
    /\ calls[p].pc = "idle"
    /\ IF p = Startup THEN ~listening ELSE listening
    /\ attempts < MaxAttempts
    /\ attempts' = attempts + 1
    /\ calls' = [calls EXCEPT ![p] =
                   [NoCall EXCEPT !.pc = "awaiting", !.seen = oidcConfig,
                                  !.after = (succeeded # {}),
                                  !.contacted = TRUE, !.attempt = attempts + 1]]
    /\ UNCHANGED <<listening, oidcConfig, succeeded, requestVars, storeVars, sharedVars, link>>

\* The call starts: the cached value is returned at once, else the discovery
\* request is sent and the call waits for it.
Enter(p) ==
    /\ calls[p].pc = "idle"
    /\ IF p = Startup THEN ~listening ELSE listening
    /\ IF oidcConfig # NoConfig
       THEN /\ calls' = [calls EXCEPT ![p] =
                           [NoCall EXCEPT !.pc = "returned", !.seen = oidcConfig,
                                          !.after = (succeeded # {}),
                                          !.result = oidcConfig,
                                          !.found = oidcConfig, !.left = oidcConfig]]
            /\ UNCHANGED attempts
       ELSE /\ attempts < MaxAttempts
            /\ attempts' = attempts + 1
            /\ calls' = [calls EXCEPT ![p] =
                           [NoCall EXCEPT !.pc = "awaiting", !.seen = oidcConfig,
                                          !.after = (succeeded # {}),
                                          !.contacted = TRUE, !.attempt = attempts + 1]]
    /\ UNCHANGED <<listening, oidcConfig, succeeded, requestVars, storeVars, sharedVars, link>>

\* The discovery resolved: its result is stored in the cache and returned.
DiscoveryResolves(p) ==
    /\ calls[p].pc = "awaiting"
    /\ oidcConfig' = Discovered(calls[p].attempt)
    /\ succeeded' = succeeded \cup {calls[p].attempt}
    /\ calls' = [calls EXCEPT ![p].pc = "returned", ![p].result = oidcConfig',
                              ![p].found = oidcConfig, ![p].left = oidcConfig']
    /\ UNCHANGED <<listening, attempts, requestVars, storeVars, sharedVars, link>>

\* Variant: the catch block remembers the failure in the cache.
DiscoveryRejectsCaches(p) ==
    /\ calls[p].pc = "awaiting"
    /\ oidcConfig' = Rejected
    /\ calls' = [calls EXCEPT ![p].pc = "threw", ![p].result = Rejected,
                              ![p].found = oidcConfig, ![p].left = oidcConfig']
    /\ UNCHANGED <<listening, attempts, succeeded, requestVars, storeVars, sharedVars, link>>

\* Variant: the catch block resets the cache.
DiscoveryRejectsClears(p) ==
    /\ calls[p].pc = "awaiting"
    /\ oidcConfig' = NoConfig
    /\ calls' = [calls EXCEPT ![p].pc = "threw", ![p].result = Rejected,
                              ![p].found = oidcConfig, ![p].left = oidcConfig']
    /\ UNCHANGED <<listening, attempts, succeeded, requestVars, storeVars, sharedVars, link>>

\* The discovery rejected: the error is logged and thrown to the caller.
DiscoveryRejects(p) ==
    /\ calls[p].pc = "awaiting"
    /\ oidcConfig' = oidcConfig
    /\ calls' = [calls EXCEPT ![p].pc = "threw", ![p].result = Rejected,
                              ![p].found = oidcConfig, ![p].left = oidcConfig']
    /\ UNCHANGED <<listening, attempts, succeeded, requestVars, storeVars, sharedVars, link>>

\* startServer goes on after its call has settled, with the metadata or with
\* the error caught and logged.
Listen ==
    /\ ~listening
    /\ calls[Startup].pc \in {"returned", "threw"}
    /\ listening' = TRUE
    /\ UNCHANGED <<oidcConfig, discoveryVars, requestVars, storeVars, sharedVars, link>>

\* The request that made the call is answered.
RequestEnds(p) ==
    /\ p # Startup
    /\ calls[p].pc \in {"returned", "threw"}
    /\ calls' = [calls EXCEPT ![p] = NoCall]
    /\ UNCHANGED <<listening, oidcConfig, attempts, succeeded, requestVars, storeVars, sharedVars, link>>

NextDiscovery ==
    \/ \E p \in Callers : Enter(p)
    \/ \E p \in Callers : DiscoveryResolves(p)
    \/ \E p \in Callers : DiscoveryRejects(p)
    \/ Listen
    \/ \E p \in Callers : RequestEnds(p)

SpecDiscovery == InitDiscovery /\ [][NextDiscovery]_vars

----------------------------------------------------------------------------
(* Store selection and the life of a session in the stores.  Module load
   builds the session middleware, startServer then runs initializeRedis, the
   startup discovery and app.listen; once the server listens, sessions are
   saved, destroyed by a logout and dropped on expiry.  A logout is followed
   in two steps: its handler, which calls destroy and sends the response in
   the same turn, and the callback of destroy, which runs later. *)

StoreSessions == 1 .. MaxStoreSessions
Stores == {"MemoryStore", "RedisStore"}
Environments ==
    {[enabled |-> e, url |-> u] : e \in BOOLEAN, u \in {Undefined, "rediss://cache"}}

InitStore ==
    /\ listening = FALSE
    /\ oidcConfig = NoConfig
    /\ sessions = <<>>
    /\ nextSid = 1
    /\ rnd = 1
    /\ pending = <<>>
    /\ lastInit = <<>>
    /\ meTrue = {}
    /\ destroyed = {}
    /\ last = NoRequest
    /\ flows = <<>>
    /\ latest = <<>>
    /\ replay = NoReplay
    /\ calls = <<>>
    /\ attempts = 0
    /\ succeeded = {}
    /\ env \in Environments
    /\ startPc = "load"
    /\ redisClient = Null
    /\ sessionStore = Null
    /\ middlewareStore = Null
    /\ connected = "untried"
    /\ contents = [st \in Stores |-> {}]
    /\ phase = [s \in StoreSessions |-> "new"]
    /\ SharedUnused
    /\ LinkUnused

\* session(options): the store of the options, or a new MemoryStore.
SessionMiddleware(store) == IF store = Null THEN "MemoryStore" ELSE store

\* The module body: sessionConfig reads sessionStore and the middleware is
\* built from it.
LoadModule ==
    /\ startPc = "load"
    /\ middlewareStore' = SessionMiddleware(sessionStore)
    /\ startPc' = "init"
    /\ UNCHANGED <<listening, oidcConfig, env, redisClient, sessionStore, connected,
                   contents, phase, requestVars, discoveryVars,
                   sharedVars, link>>

\* initializeRedis up to the await of connect: it returns at once when Redis
\* is not enabled or has no URL.
InitializeRedis ==
    /\ startPc = "init"
    /\ IF env.enabled /\ ~Falsy(env.url)
       THEN redisClient' = "client" /\ startPc' = "connecting"
       ELSE redisClient' = redisClient /\ startPc' = "discover"
    /\ UNCHANGED <<listening, oidcConfig, env, sessionStore, middlewareStore, connected,
                   contents, phase, requestVars, discoveryVars,
                   sharedVars, link>>

\* The connection was made: the Redis store is built.
ConnectResolves ==
    /\ startPc = "connecting"
    /\ connected' = "ok"
    /\ sessionStore' = "RedisStore"
    /\ startPc' = "discover"
    /\ UNCHANGED <<listening, oidcConfig, env, redisClient, middlewareStore,
                   contents, phase, requestVars, discoveryVars,
                   sharedVars, link>>

\* Variant: the connection error is thrown on, and startServer ends the process.
ConnectRejectsCrashes ==
    /\ startPc = "connecting"
    /\ connected' = "failed"
    /\ startPc' = "exited"
    /\ UNCHANGED <<listening, oidcConfig, env, redisClient, sessionStore, middlewareStore,
                   contents, phase, requestVars, discoveryVars,
                   sharedVars, link>>

\* The connection failed (refused, or not made within connectTimeout; no
\* retry during the initial connection): the client is closed, errors of that
\* ignored, and client and store are reset.
ConnectRejects ==
    /\ startPc = "connecting"
    /\ connected' = "failed"
    /\ redisClient' = Null
    /\ sessionStore' = Null
    /\ startPc' = "discover"
    /\ UNCHANGED <<listening, oidcConfig, env, middlewareStore,
                   contents, phase, requestVars, discoveryVars,
                   sharedVars, link>>

\* await getOidcConfig().catch(...)
StartupDiscovery ==
    /\ startPc = "discover"
    /\ \E d \in DiscoveryOutcomes :
         oidcConfig' = GetOidcConfig(oidcConfig, d).cache
    /\ startPc' = "listen"
    /\ UNCHANGED <<listening, env, redisClient, sessionStore, middlewareStore, connected,
                   contents, phase, requestVars, discoveryVars,
                   sharedVars, link>>

AppListen ==
    /\ startPc = "listen"
    /\ listening' = TRUE
    /\ startPc' = "running"
    /\ UNCHANGED <<oidcConfig, env, redisClient, sessionStore, middlewareStore, connected,
                   contents, phase, requestVars, discoveryVars,
                   sharedVars, link>>

\* A request saves a new session: the middleware writes it to its store.
SessionSave(s) ==
    /\ listening
    /\ phase[s] = "new"
    /\ contents' = [contents EXCEPT ![middlewareStore] = @ \cup {s}]
    /\ phase' = [phase EXCEPT ![s] = "live"]
    /\ UNCHANGED <<listening, oidcConfig, env, startPc, redisClient, sessionStore,
                   middlewareStore, connected, requestVars, discoveryVars,
                   sharedVars, link>>

\* store.destroy up to its return: the in-process store has deleted the
\* session, the Redis store has sent the command.
DestroyCalled(st, s) ==
    IF st = "MemoryStore" THEN [contents EXCEPT ![st] = @ \ {s}] ELSE contents

\* store.destroy when its callback runs; ok is the outcome of the command.
DestroyDone(st, s, ok) ==
    IF st = "RedisStore" /\ ok THEN [contents EXCEPT ![st] = @ \ {s}] ELSE contents

\* POST /auth/logout with the session's token: destroy is called, and without
\* waiting for its callback the cookie is cleared and the 200 is sent.
Logout(s) ==
    /\ listening
    /\ phase[s] = "live"
    /\ contents' = DestroyCalled(middlewareStore, s)
    /\ phase' = [phase EXCEPT ![s] = "responded"]
    /\ UNCHANGED <<listening, oidcConfig, env, startPc, redisClient, sessionStore,
                   middlewareStore, connected, requestVars, discoveryVars,
                   sharedVars, link>>

\* The callback of destroy runs; an error is logged.
DestroyAcked(s) ==
    /\ phase[s] = "responded"
    /\ \E ok \in IF middlewareStore = "RedisStore" THEN BOOLEAN ELSE {TRUE} :
         contents' = DestroyDone(middlewareStore, s, ok)
    /\ phase' = [phase EXCEPT ![s] = "acked"]
    /\ UNCHANGED <<listening, oidcConfig, env, startPc, redisClient, sessionStore,
                   middlewareStore, connected, requestVars, discoveryVars,
                   sharedVars, link>>

\* The session's time to live has run out.
SessionExpires(s) ==
    /\ phase[s] = "live"
    /\ contents' = [st \in Stores |-> contents[st] \ {s}]
    /\ phase' = [phase EXCEPT ![s] = "expired"]
    /\ UNCHANGED <<listening, oidcConfig, env, startPc, redisClient, sessionStore,
                   middlewareStore, connected, requestVars, discoveryVars,
                   sharedVars, link>>

\* The steps of module load and startServer: each is taken once it can be
\* (the connection and the discovery settle within their timeouts).
StartupStep ==
    \/ LoadModule
    \/ InitializeRedis
    \/ ConnectResolves
    \/ ConnectRejects
    \/ StartupDiscovery
    \/ AppListen

NextStore ==
    \/ LoadModule
    \/ InitializeRedis
    \/ ConnectResolves
    \/ ConnectRejects
    \/ StartupDiscovery
    \/ AppListen
    \/ \E s \in StoreSessions : SessionSave(s)
    \/ \E s \in StoreSessions : Logout(s)
    \/ \E s \in StoreSessions : DestroyAcked(s)
    \/ \E s \in StoreSessions : SessionExpires(s)

SpecStore == InitStore /\ [][NextStore]_vars /\ WF_vars(StartupStep)

----------------------------------------------------------------------------
(* Requests handled at the same time.  The session middleware reads the
   session of a request from the store when the request arrives and hands the
   handler an object of its own; the handler runs up to its first await of
   the provider or of the store, and other requests are taken up in between.
   When the response ends the middleware writes the whole session object back
   if the handler changed it.  The store is the in-process one: set and
   destroy take effect when they are called, and the callbacks of set run
   later, in the order of the calls.  The server is listening, the provider
   metadata are cached, and the requests come from one browser: of the
   session identifiers the store can give out, all but the last were used up
   by sessions that have expired. *)

\* A request in flight: the session identifier and the session object loaded
\* for it, and for a callback awaiting the exchange its query, for an
\* initiation awaiting its save the draw it wrote. The requests in flight form
\* a bag.
NoReq == [op |-> "none", pc |-> "idle", sid |-> 0, loaded |-> EmptySession, q |-> <<>>, k |-> 0]
InFlight == BagToSet(inflight)
Leaves(r) == inflight (-) SetToBag({r})
Becomes(r, t) == Leaves(r) (+) SetToBag({t})

InitShared ==
    /\ listening = TRUE
    /\ oidcConfig = Metadata
    /\ sessions = <<>>
    /\ nextSid = MaxSid
    /\ rnd = 1
    /\ pending = <<>>
    /\ lastInit = <<>>
    /\ meTrue = {}
    /\ destroyed = {}
    /\ last = NoRequest
    /\ flows = <<>>
    /\ latest = <<>>
    /\ replay = NoReplay
    /\ calls = <<>>
    /\ attempts = 0
    /\ succeeded = {}
    /\ StoreUnused
    /\ inflight = EmptyBag
    /\ ackQueue = <<>>
    /\ writer = <<>>
    /\ lastAck = <<>>
    /\ LinkUnused

\* The variables no step of a concurrent request changes.
sharedFrame ==
    <<listening, oidcConfig, pending, lastInit, meTrue, last, flows, latest, replay,
      discoveryVars, storeVars, link>>

\* Variant: set keeps the nonce the store already holds for the session.
StoreSetKeepsNonce(sid, sess) ==
    [s \in DOMAIN sessions \cup {sid} |->
        IF s # sid THEN sessions[s]
        ELSE IF sid \in DOMAIN sessions /\ sessions[sid].nonce # Undefined
             THEN [sess EXCEPT !.nonce = sessions[sid].nonce]
             ELSE sess]

\* store.set: the whole session object replaces what the store holds under
\* the identifier, whether or not it holds anything.
StoreSet(sid, sess) ==
    [s \in DOMAIN sessions \cup {sid} |-> IF s = sid THEN sess ELSE sessions[s]]

\* The identifier a session is stored under: its own, or a new one for a
\* request that came without a stored session.
SavedAt(sid) == IF sid = 0 THEN nextSid ELSE sid

\* The session middleware takes up a request: the session named by the
\* cookie is read from the store; a request without a stored session gets a
\* new, empty one. Which route the request is for shows when its handler
\* runs.
Arrive ==
    /\ BagCardinality(inflight) < MaxInflight
    /\ \E r \in {[NoReq EXCEPT !.pc = "loaded",
                                 !.sid = IF HasSession(c) THEN c ELSE 0,
                                 !.loaded = ReqSession(c)] : c \in Cookies} :
         inflight' = inflight (+) SetToBag({r})
    /\ UNCHANGED <<sessions, nextSid, rnd, destroyed, ackQueue, writer, lastAck, sharedFrame>>

\* The end of the response of request r: the session object, new as the
\* handler left it, is written to the store when it differs from what was
\* loaded.
Respond(r, op, new) ==
    LET modified == new # r.loaded
    IN  /\ (modified /\ r.sid = 0) => nextSid <= MaxSid
        /\ sessions' = IF modified THEN StoreSet(SavedAt(r.sid), new) ELSE sessions
        /\ nextSid' = IF modified /\ r.sid = 0 THEN nextSid + 1 ELSE nextSid
        /\ writer' = IF modified THEN Put(writer, SavedAt(r.sid), [op |-> op, k |-> 0])
                      ELSE writer
        /\ inflight' = Leaves(r)

\* GET /auth/sso, GET /auth/login: the handler up to the await of
\* req.session.save, which has called store.set by then.
InitiateStep(r) ==
    /\ r.pc = "loaded"
    /\ rnd <= MaxRand
    /\ (r.sid = 0) => nextSid <= MaxSid
    /\ \E mode \in {"sso", "login"} :
         \E h \in {InitiateHandler(mode, r.loaded, TRUE, rnd, TRUE)} :
             /\ sessions' = StoreSet(SavedAt(r.sid), h.session)
             /\ writer' = Put(writer, SavedAt(r.sid), [op |-> mode, k |-> rnd])
             /\ inflight' = Becomes(r, [r EXCEPT !.op = mode, !.pc = "saving",
                                                  !.sid = SavedAt(r.sid), !.k = rnd])
    /\ nextSid' = IF r.sid = 0 THEN nextSid + 1 ELSE nextSid
    /\ rnd' = rnd + 1
    /\ ackQueue' = Append(ackQueue, rnd)
    /\ UNCHANGED <<destroyed, lastAck, sharedFrame>>

\* The callback of the oldest outstanding store.set runs: the save of this
\* initiation is acknowledged and the handler sends the redirect.
SaveAcked(r) ==
    /\ r.pc = "saving"
    /\ ackQueue # <<>>
    /\ Head(ackQueue) = r.k
    /\ ackQueue' = Tail(ackQueue)
    /\ lastAck' = Put(lastAck, r.sid, r.k)
    /\ inflight' = Leaves(r)
    /\ UNCHANGED <<sessions, nextSid, rnd, destroyed, writer, sharedFrame>>

\* GET /auth/callback up to the await of authorizationCodeGrant, or to the end
\* of the response when the handler does not get that far.
CallbackStep(r) ==
    /\ r.pc = "loaded"
    /\ \/ \E q \in {p \in Queries : CallbackHandler(r.loaded, p, TRUE, NoExchange).exchanged} :
            /\ inflight' = Becomes(r, [r EXCEPT !.op = "callback", !.pc = "exchanging",
                                                 !.q = <<q>>])
            /\ UNCHANGED <<sessions, nextSid, writer>>
       \/ \E new \in {CallbackHandler(r.loaded, p, TRUE, NoExchange).session :
                         p \in {q \in Queries :
                                   ~CallbackHandler(r.loaded, q, TRUE, NoExchange).exchanged}} :
            Respond(r, "callback", new)
    /\ UNCHANGED <<rnd, destroyed, ackQueue, lastAck, sharedFrame>>

\* authorizationCodeGrant settles and the handler runs to the end of the
\* response.
ExchangeSettles(r) ==
    /\ r.pc = "exchanging"
    /\ \E new \in {CallbackHandler(r.loaded, r.q[1], TRUE, x).session :
                      x \in ExchangeOutcomes(r.q[1])} :
         Respond(r, "callback", new)
    /\ UNCHANGED <<rnd, destroyed, ackQueue, lastAck, sharedFrame>>

\* GET /auth/me.
MeStep(r) ==
    /\ r.pc = "loaded"
    /\ \E h \in {MeHandler(r.loaded, rnd)} :
         /\ h.drew => rnd <= MaxRand
         /\ rnd' = IF h.drew THEN rnd + 1 ELSE rnd
         /\ Respond(r, "me", h.session)
    /\ UNCHANGED <<destroyed, ackQueue, lastAck, sharedFrame>>

\* POST /auth/logout: req.session.destroy removes the session from the store
\* when it is called; the request has no session left to write at its end.
LogoutStep(r) ==
    /\ r.pc = "loaded"
    /\ \E destroy \in {LogoutHandler(r.loaded, body, header).destroy :
                          body \in Bodies, header \in Headers} :
         /\ sessions' = IF destroy THEN [s \in DOMAIN sessions \ {r.sid} |-> sessions[s]]
                        ELSE sessions
         /\ destroyed' = IF destroy THEN destroyed \cup {r.sid} ELSE destroyed
    /\ inflight' = Leaves(r)
    /\ UNCHANGED <<nextSid, rnd, ackQueue, writer, lastAck, sharedFrame>>

NextShared ==
    \/ Arrive
    \/ \E r \in InFlight : InitiateStep(r)
    \/ \E r \in InFlight : SaveAcked(r)
    \/ \E r \in InFlight : CallbackStep(r)
    \/ \E r \in InFlight : ExchangeSettles(r)
    \/ \E r \in InFlight : MeStep(r)
    \/ \E r \in InFlight : LogoutStep(r)

SpecShared == InitShared /\ [][NextShared]_vars

----------------------------------------------------------------------------
(* The Redis client and its reconnect strategy.  The client asks the strategy
   each time a connection attempt has failed, with the number of attempts
   that have failed in a row so far; a number is the delay in milliseconds
   after which it tries again, false and an error end the attempts. *)

RetryLimit == 10
DelayStep == 100
DelayCap == 3000

Min(a, b) == IF a < b THEN a ELSE b

\* reconnectStrategy(retries), with the value of initialConnectionSucceeded at
\* the time of the call.
ReconnectStrategy(initialConnectionSucceeded, retries) ==
    IF ~initialConnectionSucceeded THEN [kind |-> "false", ms |-> 0]
    ELSE IF retries > RetryLimit THEN [kind |-> "error", ms |-> 0]
    ELSE [kind |-> "delay", ms |-> Min(retries * DelayStep, DelayCap)]

\* What the strategy was asked last and what it answered.
Asked(ok, n) ==
    <<[initialConnectionSucceeded |-> ok, retries |-> n, result |-> ReconnectStrategy(ok, n)]>>

\* Everything but the connection of the Redis client.
serverVars ==
    <<listening, oidcConfig, requestVars, discoveryVars, storeVars, sharedVars>>

\* createClient has returned and connect has been called.
InitReconnect ==
    /\ listening = FALSE
    /\ oidcConfig = NoConfig
    /\ sessions = <<>>
    /\ nextSid = 1
    /\ rnd = 1
    /\ pending = <<>>
    /\ lastInit = <<>>
    /\ meTrue = {}
    /\ destroyed = {}
    /\ last = NoRequest
    /\ flows = <<>>
    /\ latest = <<>>
    /\ replay = NoReplay
    /\ calls = <<>>
    /\ attempts = 0
    /\ succeeded = {}
    /\ StoreUnused
    /\ SharedUnused
    /\ link = [NoLink EXCEPT !.status = "connecting"]

\* The first connection comes up: the 'ready' handler sets the flag.
InitialReady ==
    /\ link.status = "connecting"
    /\ link' = [link EXCEPT !.status = "ready", !.initialConnectionSucceeded = TRUE]
    /\ UNCHANGED serverVars

\* An attempt of the first connection fails and the strategy is asked; n is
\* the retry count the client passes.
InitialConnectFails ==
    /\ link.status = "connecting"
    /\ \E n \in 0 .. MaxRetryCount :
         \E a \in {Asked(link.initialConnectionSucceeded, n)} :
             link' = [link EXCEPT !.answer = a, !.retries = n,
                                  !.status = IF a[1].result.kind = "delay"
                                             THEN "connecting" ELSE "closed"]
    /\ UNCHANGED serverVars

\* The connection is lost after it had been ready: the client starts to
\* reconnect, counting failed attempts from 0.
ConnectionLost ==
    /\ link.status = "ready"
    /\ link.outages < MaxOutages
    /\ link' = [link EXCEPT !.status = "reconnecting", !.retries = 0, !.attempts = 0,
                             !.answer = <<>>, !.outages = link.outages + 1]
    /\ UNCHANGED serverVars

\* The client asks the strategy; on a delay it waits and makes one more
\* attempt (ok: whether that attempt succeeds), otherwise it gives up.
Reconnect ==
    /\ link.status = "reconnecting"
    /\ \E ok \in BOOLEAN :
         \E a \in {Asked(link.initialConnectionSucceeded, link.retries)} :
             link' = IF a[1].result.kind # "delay"
                     THEN [link EXCEPT !.answer = a, !.status = "closed"]
                     ELSE [link EXCEPT !.answer = a,
                                       !.attempts = link.attempts + 1,
                                       !.retries = IF ok THEN 0 ELSE link.retries + 1,
                                       !.status = IF ok THEN "ready" ELSE "reconnecting"]
    /\ UNCHANGED serverVars

NextReconnect ==
    \/ InitialReady
    \/ InitialConnectFails
    \/ ConnectionLost
    \/ Reconnect

SpecReconnect == InitReconnect /\ [][NextReconnect]_vars

----------------------------------------------------------------------------
(* Properties.  They speak of the request just handled (last) and of the
   session it left in the store. *)

\* The data stored under a session identifier; no data when nothing is stored.
Stored(sid) == IF sid \in DOMAIN sessions THEN sessions[sid] ELSE EmptySession

IsCallback == last.op = "callback"
CallbackFailed == IsCallback /\ last.resp.location # "/"
SilentRedirect == last.resp.status = 302 /\ last.resp.location = "/?sso_failed=true"
\* The callback carried no error and did not present the stored state.
MismatchedState ==
    /\ IsCallback
    /\ last.q.error = Null
    /\ (last.pre.state = Undefined \/ last.q.state # last.pre.state)
NoFlowData(s) ==
    s.codeVerifier = Undefined /\ s.state = Undefined /\ s.nonce = Undefined
\* None of the fields of a flow attempt is present.
NoTransient(s) == NoFlowData(s) /\ s.isSso = FALSE

\* C1: round trip. A callback without error parameter that presents the state
\* an initiation stored in the session, and whose token exchange the provider
\* accepts, leaves the session authenticated with user and tokens set and no
\* flow field, and answers with a redirect to "/".
RoundTrip ==
    (/\ IsCallback
     /\ last.q.error = Null
     /\ last.pre.state # Undefined
     /\ last.q.state = last.pre.state
     /\ Get(lastInit, last.sid) \in {"sso", "login"}
     /\ last.exchange.ok)
    => (/\ Stored(last.sid).authenticated
        /\ Stored(last.sid).user # <<>>
        /\ Stored(last.sid).tokens # <<>>
        /\ NoTransient(Stored(last.sid))
        /\ last.resp.status = 302
        /\ last.resp.location = "/")

RoundTripWitness ==
    /\ IsCallback
    /\ last.q.error = Null
    /\ last.pre.state # Undefined
    /\ last.q.state = last.pre.state
    /\ last.exchange.ok
    /\ ~last.pre.authenticated
    /\ Stored(last.sid).authenticated

\* C2: failure cleanup. After every callback that fails, on whichever path and
\* in whichever mode, the session holds none of codeVerifier, state, nonce,
\* isSso.
FailureCleanup ==
    CallbackFailed => NoTransient(Stored(last.sid))

\* C3: a failing callback on a session whose most recent initiation was
\* GET /auth/login never answers with the redirect to "/?sso_failed=true".
InteractiveNeverSilent ==
    (CallbackFailed /\ Get(lastInit, last.sid) = "login") => ~SilentRedirect

\* C4 as stated: when the most recent initiation was GET /auth/sso, every
\* failing callback answers with the redirect to "/?sso_failed=true", never
\* with a 4xx or 5xx.
SilentNeverError ==
    (CallbackFailed /\ Get(lastInit, last.sid) = "sso") => SilentRedirect

\* C4 as amended: while the flow started by GET /auth/sso is in flight (no
\* callback handled on the session since), a failing callback answers with the
\* redirect to "/?sso_failed=true" unless it fails the state validation, and
\* then it answers 400.
SilentFailureRedirects ==
    (CallbackFailed /\ last.pending = "sso")
    => IF last.cfgOk /\ Falsy(last.q.error) /\ last.q.state # last.pre.state
       THEN last.resp.status = 400
       ELSE SilentRedirect

SilentFailureWitness ==
    /\ CallbackFailed
    /\ last.pending = "sso"
    /\ last.exchanged
    /\ ~last.exchange.ok
    /\ SilentRedirect

\* C5 as stated: a callback without error parameter whose state parameter is
\* not the stored state is answered 400, clears the flow fields, attempts no
\* token exchange and does not make the session authenticated.
StateMismatchFatal ==
    MismatchedState
    => (/\ last.resp.status = 400
        /\ NoTransient(Stored(last.sid))
        /\ ~last.exchanged
        /\ Stored(last.sid).authenticated = last.pre.authenticated)

\* C5 as amended: the same, for a callback that has the provider metadata
\* (cached or discovered by this request); when discovery fails the callback
\* is answered before the state is looked at, still without exchange and
\* without authenticating the session.
StateMismatchFatalWithMetadata ==
    MismatchedState
    => (/\ ~last.exchanged
        /\ Stored(last.sid).authenticated = last.pre.authenticated
        /\ last.resp.location # "/"
        /\ last.cfgOk => (last.resp.status = 400 /\ NoTransient(Stored(last.sid))))

StateMismatchWitness ==
    /\ MismatchedState
    /\ last.pre.state # Undefined
    /\ last.q.state # Null
    /\ last.q.code # Null
    /\ last.resp.status = 400

\* C6 as stated: every callback on a session without flow data ends in the
\* state-mismatch failure, whatever its query parameters.
FailClosedAsMismatch ==
    (IsCallback /\ NoFlowData(last.pre))
    => (/\ last.resp.status = 400
        /\ last.resp.body = [text |-> "State mismatch - possible CSRF attack"])

\* C6 as amended: every callback on a session without flow data fails, attempts
\* no token exchange and leaves the session as it was; it ends in the
\* state-mismatch failure when it carries no error and the provider metadata
\* is available.
FailClosed ==
    (IsCallback /\ NoFlowData(last.pre))
    => (/\ CallbackFailed
        /\ ~last.exchanged
        /\ Stored(last.sid) = last.pre
        /\ (last.cfgOk /\ Falsy(last.q.error))
             => (/\ last.resp.status = 400
                 /\ last.resp.body = [text |-> "State mismatch - possible CSRF attack"]))

FailClosedWitness ==
    /\ IsCallback
    /\ NoFlowData(last.pre)
    /\ last.pre.authenticated
    /\ last.q.code # Null
    /\ last.q.state \notin {Null, ""}
    /\ last.resp.status = 400

\* C7: POST /auth/logout answers 403 and leaves the session as it was unless
\* the presented token (the body's csrfToken, else the x-csrf-token header)
\* is the session's stored csrfToken; without a stored token it always rejects.
PresentedByRequest ==
    IF last.body # <<>> /\ ~Falsy(last.body[1].csrfToken)
    THEN last.body[1].csrfToken ELSE last.header

LogoutNeedsCsrf ==
    (/\ last.op = "logout"
     /\ (last.pre.csrfToken = Undefined \/ PresentedByRequest # last.pre.csrfToken))
    => (last.resp.status = 403 /\ Stored(last.sid) = last.pre)

\* C8: on a session for which no GET /auth/me was answered authenticated:true,
\* every POST /auth/logout is answered 403.
LogoutBeforeMe ==
    (last.op = "logout" /\ ~last.meTrue) => last.resp.status = 403

\* C9: after a logout answered 200 the session is gone from the store, every
\* later GET /auth/me with its identifier answers authenticated:false, and
\* every later POST /auth/logout with its identifier answers 403. (A request
\* whose cookie names a destroyed session runs under a new identifier.)
LogoutDestroys ==
    /\ \A s \in destroyed : s \notin DOMAIN sessions
    /\ (last.op = "me" /\ last.cookie \in destroyed)
         => last.resp.body = [authenticated |-> FALSE]
    /\ (last.op = "logout" /\ last.cookie \in destroyed /\ last.sid # last.cookie)
         => last.resp.status = 403

\* C10: GET /auth/me answers exactly {authenticated:true, user, csrfToken} for
\* a session that is authenticated with a user and exactly
\* {authenticated:false} otherwise; no token of the session is in the answer.
TokenValues(s) ==
    IF s.tokens = <<>> THEN {}
    ELSE {s.tokens[1].accessToken, s.tokens[1].refreshToken, s.tokens[1].idToken}

MeNeverReturnsTokens ==
    last.op = "me"
    => IF last.pre.authenticated /\ last.pre.user # <<>>
       THEN /\ DOMAIN last.resp.body = {"authenticated", "user", "csrfToken"}
            /\ last.resp.body.authenticated = TRUE
            /\ last.resp.body.user = last.pre.user[1]
            /\ DOMAIN last.resp.body.user = {"name", "email", "sub", "oid"}
            /\ last.resp.body.csrfToken = Stored(last.sid).csrfToken
            /\ last.resp.body.csrfToken # Undefined
            /\ \A f \in DOMAIN last.resp.body.user :
                 last.resp.body.user[f] \notin TokenValues(last.pre)
            /\ last.resp.body.csrfToken \notin TokenValues(last.pre)
       ELSE last.resp.body = [authenticated |-> FALSE]

MeWitness ==
    /\ last.op = "me"
    /\ last.pre.tokens # <<>>
    /\ last.resp.body.authenticated

IsInitiation == last.op \in {"sso", "login"}
Redirected == last.resp.status = 302 /\ last.resp.location = "authorize"
HasIdentity(s) == s.authenticated \/ s.user # <<>> \/ s.tokens # <<>>

\* C11: the CSRF token of a session is stable. A GET /auth/me on a session
\* that has a token answers with that token, and no step changes or removes the
\* token of a stored session; a session leaves the store only by a logout
\* answered 200 or by expiry.
MeReturnsStoredToken ==
    (last.op = "me" /\ last.pre.csrfToken # Undefined)
    => (/\ "csrfToken" \in DOMAIN last.resp.body
        /\ last.resp.body.csrfToken = last.pre.csrfToken)

CsrfTokenKept ==
    \A s \in DOMAIN sessions :
        sessions[s].csrfToken # Undefined
        => IF s \in DOMAIN sessions'
           THEN sessions'[s].csrfToken = sessions[s].csrfToken
           ELSE s \in destroyed' \/ last' = NoRequest

PhaseExclusion ==
    \A s \in DOMAIN sessions : ~(~NoTransient(sessions[s]) /\ HasIdentity(sessions[s]))

\* C13: in every stored session authenticated comes with both user and
\* tokens, and a session that is not authenticated has neither.
IdentityTogether ==
    \A s \in DOMAIN sessions :
        IF sessions[s].authenticated
        THEN sessions[s].user # <<>> /\ sessions[s].tokens # <<>>
        ELSE sessions[s].user = <<>> /\ sessions[s].tokens = <<>>

IdentityTogetherWitness ==
    /\ IsCallback
    /\ last.exchanged
    /\ last.sid \in DOMAIN sessions
    /\ sessions[last.sid].authenticated
    /\ sessions[last.sid].user = <<UserFromClaims(last.exchange.claims)>>

\* C14: atomicity of the callback. A successful callback leaves no flow field
\* and sets user, tokens and authenticated together; a failed callback leaves
\* user, tokens, authenticated and csrfToken as they were, and each flow field
\* either as it was or cleared.
CallbackAtomic ==
    IsCallback
    => IF last.resp.location = "/"
       THEN /\ NoTransient(Stored(last.sid))
            /\ Stored(last.sid).authenticated
            /\ Stored(last.sid).user = <<UserFromClaims(last.exchange.claims)>>
            /\ Stored(last.sid).tokens = <<SessionTokens(last.exchange.tokens)>>
            /\ Stored(last.sid).csrfToken = last.pre.csrfToken
       ELSE /\ Stored(last.sid).user = last.pre.user
            /\ Stored(last.sid).tokens = last.pre.tokens
            /\ Stored(last.sid).authenticated = last.pre.authenticated
            /\ Stored(last.sid).csrfToken = last.pre.csrfToken
            /\ Stored(last.sid).codeVerifier \in {last.pre.codeVerifier, Undefined}
            /\ Stored(last.sid).state \in {last.pre.state, Undefined}
            /\ Stored(last.sid).nonce \in {last.pre.nonce, Undefined}
            /\ Stored(last.sid).isSso \in {last.pre.isSso, FALSE}

CallbackAtomicWitness ==
    /\ CallbackFailed
    /\ last.pre.authenticated
    /\ last.pre.state # Undefined
    /\ ~Falsy(last.q.error)
    /\ NoTransient(Stored(last.sid))
    /\ Stored(last.sid).authenticated

\* C15: an initiation answers with the redirect to the provider only when the
\* save of the session was acknowledged, and then the store holds the state,
\* the nonce and the verifier of the challenge the redirect carries; when the
\* save reports an error the answer is 500 and not a redirect.
PersistBeforeRedirect ==
    IsInitiation
    => /\ Redirected
          => (/\ last.saveOk
              /\ Stored(last.sid).state = last.resp.body.state
              /\ Stored(last.sid).nonce = last.resp.body.nonce
              /\ S256(Stored(last.sid).codeVerifier) = last.resp.body.code_challenge)
       /\ (last.cfgOk /\ ~last.saveOk)
          => (last.resp.status = 500 /\ ~Redirected)

PersistBeforeRedirectWitness ==
    /\ IsInitiation
    /\ last.cfgOk
    /\ ~last.saveOk
    /\ last.resp.status = 500
    /\ Stored(last.sid) = last.pre

\* The callback presents the state of an initiation that a later initiation
\* on the same session has superseded, no callback having come in between.
PresentsSupersededState ==
    /\ IsCallback
    /\ \E i \in 1 .. (Len(last.flows) - 1) : last.q.state = StateOf(last.flows[i])

\* C16 as stated: after two initiations on a session with no callback in
\* between, a callback presenting the state of the first is answered 400 by the
\* state validation and does not authenticate the session.
SupersededStateRejected ==
    PresentsSupersededState
    => (/\ last.resp.status = 400
        /\ last.resp.body = [text |-> "State mismatch - possible CSRF attack"]
        /\ ~last.exchanged
        /\ Stored(last.sid).authenticated = last.pre.authenticated)

\* C16 as amended: such a callback never reaches the token exchange and does
\* not authenticate the session; when it carries no error parameter it is
\* answered 400 by the state validation.
SupersededStateFails ==
    PresentsSupersededState
    => (/\ CallbackFailed
        /\ ~last.exchanged
        /\ Stored(last.sid).authenticated = last.pre.authenticated
        /\ Falsy(last.q.error)
             => (/\ last.resp.status = 400
                 /\ last.resp.body = [text |-> "State mismatch - possible CSRF attack"]))

SupersededStateWitness ==
    /\ PresentsSupersededState
    /\ Falsy(last.q.error)
    /\ last.q.code # Null
    /\ last.pre.state = StateOf(last.flows[Len(last.flows)])
    /\ last.resp.status = 400

\* C17: after an initiation that answered with the redirect, the flow fields of
\* the session are those of this initiation, the mode flag included: isSso is
\* set after GET /auth/sso and not set after GET /auth/login.
InitiationOverwrites ==
    (IsInitiation /\ Redirected)
    => (/\ Stored(last.sid).state = last.resp.body.state
        /\ Stored(last.sid).nonce = last.resp.body.nonce
        /\ S256(Stored(last.sid).codeVerifier) = last.resp.body.code_challenge
        /\ Stored(last.sid).isSso = (last.op = "sso"))

\* The properties of getOidcConfig speak of the calls of SpecDiscovery.
Started(p) == calls[p].pc # "idle"
Results == {Discovered(n) : n \in succeeded}

\* C18: once a discovery has succeeded the cache is never empty again, and
\* every call that starts afterwards returns the value it finds in the cache
\* without sending a discovery request.
CachedAfterSuccess ==
    /\ succeeded # {} => oidcConfig \in Results
    /\ \A p \in Callers :
         (Started(p) /\ calls[p].after)
         => (/\ calls[p].pc = "returned"
             /\ ~calls[p].contacted
             /\ calls[p].seen \in Results
             /\ calls[p].result = calls[p].seen)

CachedAfterSuccessWitness ==
    \E p \in Callers :
        /\ calls[p].after
        /\ calls[p].pc = "returned"
        /\ ~calls[p].contacted
        /\ attempts >= 2

\* C19: a failed discovery is not cached and is not fatal. The call whose
\* discovery was rejected leaves the cache as it found it, so empty as long as
\* no discovery has succeeded; only a call whose own discovery was rejected
\* throws; startServer can go on to listen after its call threw; and a call
\* that finds the cache empty sends a new discovery request.
FailedDiscoveryNotCached ==
    /\ oidcConfig # Rejected
    /\ succeeded = {} => oidcConfig = NoConfig
    /\ \A p \in Callers :
         /\ calls[p].pc = "threw"
              => (/\ calls[p].contacted
                  /\ calls[p].attempt \notin succeeded
                  /\ calls[p].left = calls[p].found)
         /\ (Started(p) /\ calls[p].seen = NoConfig) => calls[p].contacted
    /\ (calls[Startup].pc = "threw" /\ ~listening) => ENABLED Listen

FailedDiscoveryWitness ==
    /\ listening
    /\ calls[Startup].pc = "threw"
    /\ \E p \in Callers \ {Startup} :
         /\ calls[p].pc = "returned"
         /\ calls[p].contacted
         /\ oidcConfig = calls[p].result

\* C20: overlapping first discoveries. Every settled call has given its caller
\* the complete result of a successful discovery or an error; the cache holds
\* nothing or the result of one successful discovery; and a call whose
\* discovery was rejected while the cache held the result of another call has
\* left that result in place.
OverlappingDiscoveries ==
    /\ oidcConfig \in {NoConfig} \cup Results
    /\ \A p \in Callers :
         /\ calls[p].pc = "returned" => calls[p].result \in Results
         /\ calls[p].pc = "threw"
              => (/\ calls[p].result = Rejected
                  /\ calls[p].found # NoConfig
                       => (calls[p].left = calls[p].found /\ oidcConfig # NoConfig))

OverlappingDiscoveriesWitness ==
    \E p, q \in Callers :
        /\ calls[p].pc = "threw"
        /\ calls[p].seen = NoConfig
        /\ calls[p].found # NoConfig
        /\ calls[q].pc = "returned"
        /\ calls[q].seen = NoConfig
        /\ calls[q].contacted
        /\ oidcConfig = calls[q].result

\* C23: in an interactive callback a validation failure (state mismatch, nonce
\* mismatch, ID token rejected) is answered 4xx, and a 5xx is answered only when
\* the provider could not be reached.
InteractiveCallback == IsCallback /\ Get(lastInit, last.sid) = "login" /\ ~last.pre.isSso
ValidationFailed ==
    \/ last.cfgOk /\ MismatchedState
    \/ last.exchanged /\ ~last.exchange.ok /\ last.exchange.why = "invalid"
ProviderUnavailable ==
    \/ ~last.cfgOk
    \/ last.exchanged /\ ~last.exchange.ok /\ last.exchange.why = "unavailable"

ValidationIs4xx ==
    InteractiveCallback
    => (/\ ValidationFailed => last.resp.status \in 400 .. 499
        /\ last.resp.status \in 500 .. 599 => ProviderUnavailable)

\* C24: a session that is authenticated stays in the store authenticated, with
\* user and tokens, through every step; it leaves the store only by a logout
\* that presented its CSRF token and was answered 200, or by expiry.
AuthenticatedKept ==
    \A s \in DOMAIN sessions :
        sessions[s].authenticated
        => IF s \in DOMAIN sessions'
           THEN /\ sessions'[s].authenticated
                /\ sessions'[s].user # <<>>
                /\ sessions'[s].tokens # <<>>
           ELSE \/ /\ last'.op = "logout"
                   /\ last'.sid = s
                   /\ last'.resp.status = 200
                   /\ PresentedByRequest' = sessions[s].csrfToken
                \/ last = NoRequest /\ last' = NoRequest

AuthenticatedUntilDestroyed == [][AuthenticatedKept]_vars

AuthenticatedKeptWitness ==
    /\ last.op = "logout"
    /\ last.resp.status = 403
    /\ last.pre.authenticated
    /\ last.pre.csrfToken # Undefined
    /\ Stored(last.sid).authenticated

\* C25: a callback with an error parameter leaves no flow field and attempts no
\* token exchange; when the flow in flight was started by GET /auth/sso it
\* answers with the redirect to "/?sso_failed=true" and does not authenticate
\* the session; when it was started by GET /auth/login it answers 400 with the
\* provider's error code and description.
ErrorCallback ==
    (IsCallback /\ ~Falsy(last.q.error))
    => (/\ NoTransient(Stored(last.sid))
        /\ ~last.exchanged
        /\ last.pending = "sso"
             => (/\ SilentRedirect
                 /\ Stored(last.sid).authenticated = last.pre.authenticated)
        /\ last.pending = "login"
             => (/\ last.resp.status = 400
                 /\ last.resp.body = [error |-> "Authentication failed",
                                      errorCode |-> last.q.error,
                                      errorDescription |-> last.q.error_description]))

\* C26: an initiation whose discovery fails answers 500 with an error body,
\* sends no redirect and leaves the session as it was.
InitiationWithoutProvider ==
    (IsInitiation /\ ~last.cfgOk)
    => (/\ last.resp.status = 500
        /\ DOMAIN last.resp.body = {"error"}
        /\ ~Redirected
        /\ Stored(last.sid) = last.pre)

InitiationWithoutProviderWitness ==
    /\ IsInitiation
    /\ ~last.cfgOk
    /\ last.resp.status = 500
    /\ last.sid \notin DOMAIN sessions

\* C27: the authorization URL of an initiation carries
\* code_challenge_method=S256, the S256 transform of the stored verifier as
\* code_challenge, the stored state and nonce, and prompt=none exactly when
\* the initiation is GET /auth/sso.
AuthorizationUrlMatches ==
    (IsInitiation /\ Redirected)
    => (/\ last.resp.body.code_challenge_method = "S256"
        /\ last.resp.body.code_challenge = S256(Stored(last.sid).codeVerifier)
        /\ last.resp.body.code_challenge # Stored(last.sid).codeVerifier
        /\ Stored(last.sid).codeVerifier # Undefined
        /\ last.resp.body.state = Stored(last.sid).state
        /\ last.resp.body.nonce = Stored(last.sid).nonce
        /\ (last.resp.body.prompt = "none") = (last.op = "sso")
        /\ last.op = "login" => last.resp.body.prompt = Undefined)

AuthorizationUrlWitness ==
    /\ last.op = "sso"
    /\ Redirected
    /\ last.resp.body.prompt = "none"
    /\ last.pre.state # Undefined

\* C28: after a successful callback the session's user is name, email (the
\* email claim, or preferred_username when there is none), sub and oid of the
\* ID token claims, and tokens holds the access, refresh and ID token and the
\* expiry the exchange returned.
IdentityFromClaims ==
    (IsCallback /\ last.resp.location = "/")
    => (/\ last.exchange.ok
        /\ Stored(last.sid).user # <<>>
        /\ Stored(last.sid).user[1].name = last.exchange.claims.name
        /\ Stored(last.sid).user[1].email =
             (IF last.exchange.claims.email # Undefined
              THEN last.exchange.claims.email
              ELSE last.exchange.claims.preferred_username)
        /\ Stored(last.sid).user[1].sub = last.exchange.claims.sub
        /\ Stored(last.sid).user[1].oid = last.exchange.claims.oid
        /\ Stored(last.sid).tokens # <<>>
        /\ Stored(last.sid).tokens[1].accessToken = last.exchange.tokens.access_token
        /\ Stored(last.sid).tokens[1].refreshToken = last.exchange.tokens.refresh_token
        /\ Stored(last.sid).tokens[1].idToken = last.exchange.tokens.id_token
        /\ Stored(last.sid).tokens[1].expiresAt = last.exchange.tokens.expires_at)

IdentityFromClaimsWitness ==
    /\ IsCallback
    /\ last.resp.location = "/"
    /\ last.exchange.claims.email = Undefined
    /\ Stored(last.sid).user[1].email = last.exchange.claims.preferred_username

\* C29: a logout answered 200 returns a logout URL whose
\* post_logout_redirect_uri is the base URL and whose id_token_hint is the ID
\* token the session held when the request came in, and is absent when it held
\* none.
LogoutUrlCarriesHint ==
    (last.op = "logout" /\ last.resp.status = 200)
    => (/\ DOMAIN last.resp.body = {"logoutUrl"}
        /\ last.resp.body.logoutUrl.post_logout_redirect_uri = "BASE_URL"
        /\ last.resp.body.logoutUrl.id_token_hint =
             (IF last.pre.tokens # <<>> /\ last.pre.tokens[1].idToken # Undefined
              THEN last.pre.tokens[1].idToken ELSE Undefined)
        /\ last.sid \notin DOMAIN sessions)

LogoutUrlWitness ==
    /\ last.op = "logout"
    /\ last.resp.status = 200
    /\ last.pre.tokens # <<>>
    /\ last.resp.body.logoutUrl.id_token_hint = "idt"

\* The properties of store selection speak of SpecStore.
FallbackCase == env.enabled /\ (Falsy(env.url) \/ connected = "failed")
InitializeRedisReturned == startPc \in {"discover", "listen", "running"}

\* C21: graceful store fallback. With Redis enabled and its URL missing or its
\* initial connection failed, the process does not exit, initializeRedis
\* returns with neither client nor store selected, no session is ever held by
\* the Redis store, the middleware works on the in-process store, and the
\* server comes to listen.
FallbackSafe ==
    FallbackCase
    => (/\ startPc # "exited"
        /\ startPc \notin {"load", "init"} => InitializeRedisReturned
        /\ InitializeRedisReturned => (sessionStore = Null /\ redisClient = Null)
        /\ contents["RedisStore"] = {}
        /\ \A s \in StoreSessions : phase[s] = "live" => s \in contents["MemoryStore"]
        /\ listening => middlewareStore = "MemoryStore")

GracefulFallback == []FallbackSafe /\ (FallbackCase ~> listening)

GracefulFallbackWitness ==
    /\ env.enabled
    /\ connected = "failed"
    /\ listening
    /\ sessionStore = Null
    /\ \E s \in StoreSessions : s \in contents["MemoryStore"]

\* C22: store selection takes effect. Once the server listens, the store of
\* the session middleware is the store initializeRedis selected: the Redis
\* store when one was selected, with no session in the in-process store, and
\* the in-process store otherwise.
StoreSelectionEffective ==
    listening
    => IF sessionStore # Null
       THEN middlewareStore = sessionStore /\ contents["MemoryStore"] = {}
       ELSE middlewareStore = "MemoryStore" /\ contents["RedisStore"] = {}

\* C30: no fire-and-forget on logout. The 200 of a logout is sent only after
\* the store has acknowledged the deletion, and from then on the session is
\* not in the store.
LogoutAwaitsDestroy ==
    \A s \in StoreSessions :
        phase[s] \in {"responded", "acked"}
        => (phase[s] = "acked" /\ s \notin contents[middlewareStore])

----------------------------------------------------------------------------
(* C36: a csrfToken exists only on authenticated sessions *)

\* GET /auth/me on a session that is not authenticated leaves the store as it
\* found it: the session it loaded is still what the store holds, and no
\* session is created for a request that came without one.
MeWritesNothing ==
    (last.op = "me" /\ ~(last.pre.authenticated /\ last.pre.user # <<>>)) =>
        /\ Stored(last.sid) = last.pre
        /\ last.sid \in DOMAIN sessions => last.cookie = last.sid
        /\ last.resp.body = [authenticated |-> FALSE]

\* C36: in every reachable state, a stored session that has a csrfToken is
\* authenticated (authenticated = TRUE) and has its user set, and GET /auth/me
\* on a session that is not authenticated writes nothing to the session.
CsrfOnlyWhenAuthenticated ==
    /\ \A s \in DOMAIN sessions :
           sessions[s].csrfToken # Undefined =>
               sessions[s].authenticated = TRUE /\ sessions[s].user # <<>>
    /\ MeWritesNothing

\* GET /auth/me has just answered on a stored session that is not
\* authenticated and has a flow in flight, and the session has no token.
CsrfOnlyWhenAuthenticatedWitness ==
    /\ last.op = "me"
    /\ last.sid \in DOMAIN sessions
    /\ ~last.pre.authenticated
    /\ last.pre.state # Undefined
    /\ sessions[last.sid].csrfToken = Undefined

----------------------------------------------------------------------------
(* C31: a session becomes authenticated only through a validated callback *)

\* Session s goes from not authenticated (or not stored) to authenticated.
BecomesAuthenticated(s) ==
    /\ s \notin DOMAIN sessions \/ sessions[s].authenticated # TRUE
    /\ s \in DOMAIN sessions'
    /\ sessions'[s].authenticated = TRUE

\* The request just handled is a callback on session s that carried no error
\* (an empty error parameter is no error to the handler), presented the state
\* the latest initiation of s had stored, and whose token exchange, made with
\* the code verifier and nonce of that initiation, succeeded.
ValidatedCallback(s) ==
    /\ last'.op = "callback"
    /\ last'.sid = s
    /\ Falsy(last'.q.error)
    /\ last'.latest > 0
    /\ last'.q.state = StateOf(last'.latest)
    /\ last'.pre.state = StateOf(last'.latest)
    /\ last'.exchanged
    /\ last'.exchange.ok
    /\ last'.grant = [pkceCodeVerifier |-> Verifier(last'.latest),
                      expectedNonce |-> NonceOf(last'.latest),
                      expectedState |-> StateOf(last'.latest)]

\* C31: every step that takes a session from not authenticated to
\* authenticated = TRUE is the handling of a callback request that carried no
\* error parameter, whose state parameter equalled the state stored by the
\* session's latest initiation, and whose token exchange, made with the stored
\* codeVerifier and nonce, succeeded.
OnlyValidatedCallbackAuthenticates ==
    [][\A s \in 1 .. MaxSid : BecomesAuthenticated(s) => ValidatedCallback(s)]_vars

\* A callback has just authenticated a session that had two initiations.
OnlyValidatedCallbackWitness ==
    /\ IsCallback
    /\ ~last.pre.authenticated
    /\ Stored(last.sid).authenticated = TRUE
    /\ Len(last.flows) = 2
    /\ last.q.state = StateOf(last.latest)

----------------------------------------------------------------------------
(* C32, C33: callbacks that follow a callback on the same session *)

StateMismatchAnswer ==
    /\ last.resp.status = 400
    /\ last.resp.body = [text |-> "State mismatch - possible CSRF attack"]
IdentityUnchanged ==
    /\ Stored(last.sid).authenticated = last.pre.authenticated
    /\ Stored(last.sid).user = last.pre.user
    /\ Stored(last.sid).tokens = last.pre.tokens

\* The callback just handled came on the session of the callback handled
\* before it, with no initiation on that session in between.
FollowsCallback ==
    /\ IsCallback
    /\ last.replay.on
    /\ last.replay.q # <<>>
    /\ last.replay.sid = last.sid
\* It is the same callback URL once more; it carries no error parameter and
\* the provider metadata are at hand, so that the state validation is reached.
Replayed ==
    /\ FollowsCallback
    /\ last.replay.q = <<last.q>>
    /\ last.q.error = Null
    /\ last.cfgOk

\* C32: each state value is accepted at most once. A callback URL replayed on
\* the same session after it has been processed, with no initiation in between,
\* is rejected as a state mismatch and leaves authenticated, user and tokens
\* unchanged.
ReplayRejected == Replayed => (StateMismatchAnswer /\ IdentityUnchanged)

\* The callback before this one presented the state of an older one of two or
\* more initiations, and this one presents the state of the newest of them.
NewerAfterStale ==
    /\ FollowsCallback
    /\ Len(last.replay.flows) >= 2
    /\ \E i \in 1 .. (Len(last.replay.flows) - 1) :
           last.replay.q[1].state = StateOf(last.replay.flows[i])
    /\ last.q.state = StateOf(last.replay.flows[Len(last.replay.flows)])

\* C33 as stated: the stale callback fails with a state mismatch and clears the
\* transient fields; the callback of the newer initiation, arriving afterwards
\* with its correct state, fails with a state mismatch as well, and the session
\* is not authenticated by either.
StaleCancelsByMismatch ==
    /\ PresentsSupersededState
         => (StateMismatchAnswer /\ NoTransient(Stored(last.sid)) /\ IdentityUnchanged)
    /\ NewerAfterStale => (StateMismatchAnswer /\ IdentityUnchanged)

\* C33 as amended: the stale callback fails, reaches no token exchange and
\* clears the transient fields, and so does the callback of the newer
\* initiation after it; each is answered as a state mismatch when it carries no
\* error parameter.
StaleCancels ==
    /\ PresentsSupersededState
         => (/\ CallbackFailed /\ ~last.exchanged
             /\ NoTransient(Stored(last.sid))
             /\ IdentityUnchanged
             /\ Falsy(last.q.error) => StateMismatchAnswer)
    /\ NewerAfterStale
         => (/\ CallbackFailed /\ ~last.exchanged
             /\ NoTransient(Stored(last.sid))
             /\ IdentityUnchanged
             /\ Falsy(last.q.error) => StateMismatchAnswer)

\* The callback of the newer initiation, complete with its code, has just been
\* turned away after the stale one.
StaleCancelsWitness ==
    /\ NewerAfterStale
    /\ last.q.error = Null
    /\ last.q.code # Null
    /\ last.replay.q[1].error = Null
    /\ StateMismatchAnswer

----------------------------------------------------------------------------
(* C34, C35: requests handled at the same time on one session *)

FlowFieldsOf(k) == [codeVerifier |-> Verifier(k), state |-> StateOf(k), nonce |-> NonceOf(k)]
FlowFields(sess) ==
    [codeVerifier |-> sess.codeVerifier, state |-> sess.state, nonce |-> sess.nonce]

\* No store.set of an initiation on session s awaits its callback.
SavesAcked(s) == \A r \in InFlight : r.pc = "saving" => r.sid # s

DestroyedStaysLoggedOut ==
    inflight = EmptyBag
        => \A s \in destroyed :
               MeHandler(Stored(s), rnd).resp.body = [authenticated |-> FALSE]

----------------------------------------------------------------------------
(* C37: the reconnect policy of the Redis client *)

\* C37: before the first 'ready' event the reconnect strategy answers false
\* for every retry count; after it, for retry count n it answers the delay
\* min(100 * n, 3000) ms while n <= 10 and an error once n > 10, so that
\* reconnection is attempted at most 10 times after a loss of the connection.
ReconnectPolicy ==
    /\ link.answer # <<>> =>
         LET a == link.answer[1]
         IN  IF ~a.initialConnectionSucceeded THEN a.result.kind = "false"
             ELSE IF a.retries <= 10
                  THEN a.result = [kind |-> "delay", ms |-> Min(100 * a.retries, 3000)]
                  ELSE a.result.kind = "error"
    /\ link.attempts <= 10

====
